---- MODULE Spec2Model ----
(***************************************************************************)
(* Model of LegalRAGPipeline (src/legal-rag-pipeline.py): the embedding    *)
(* selection of _generate_embedding, the ingestion loop of                 *)
(* _load_legal_database and the FAISS index build of                       *)
(* _initialize_vector_store, driven by _initialize_models.                 *)
(*                                                                         *)
(* A text is modelled by its length in characters (the only property of a  *)
(* text the code inspects); an embedding by the text it was computed from, *)
(* the model that produced it, its dimension, the state of its norm and    *)
(* the number of L2 normalisations it has undergone.                       *)
(***************************************************************************)
EXTENDS Integers, Sequences, FiniteSets, TLC

\* ---------------------------------------------------------------- bounds
MaxFiles == 2      \* JSON files found under legal_documents/*/
MaxRecs == 2       \* records in one JSON file
MaxRebuilds == 1   \* calls of _initialize_vector_store after construction
MaxTextLen == 600  \* longest text handed to a direct call of _generate_embedding

\* ------------------------------------------------------ program constants
ShortTextThreshold == 512   \* len(text) < 512
GeneralDim == 384           \* config["embeddings"]["dimension"]
ZeroDim == 384              \* np.zeros(384)
LegalBertDim == 768         \* dimension of the domain model (legal-bert-base), unlike GeneralDim

\* Text lengths read from the corpus: empty, just below and at the threshold.
TextLens == {0, ShortTextThreshold - 1, ShortTextThreshold}
\* Text lengths handed to a direct call of _generate_embedding.
CallTextLens == 0..MaxTextLen

SeqsUpTo(S, n) == UNION {[1..k -> S] : k \in 0..n}

\* One element of a parsed JSON file: a JSON object (a dict, whose "content"
\* is a string, "" when the key is missing) or any other JSON value.
DocData == {[kind |-> "dict", content |-> n] : n \in TextLens}
             \cup {[kind |-> "nondict", content |-> 0]}

\* What json.load finds in one file: a list of elements, or invalid JSON.
JsonFiles == {[parsed |-> TRUE, documents |-> d] : d \in SeqsUpTo(DocData, MaxRecs)}
               \cup {[parsed |-> FALSE, documents |-> <<>>]}

\* ------------------------------------------------------------- embeddings
NoEmbedding == [text |-> 0, model |-> "none", dim |-> 0, norm |-> "zero", normalized |-> 0]

\* self._generate_legal_bert_embedding(text): a fixed-length vector of the
\* domain model's dimension, not normalised.
generate_legal_bert_embedding(text) ==
  [text |-> text, model |-> "legal_bert", dim |-> LegalBertDim, norm |-> "raw", normalized |-> 0]

\* self.embeddings_model.encode(text, normalize_embeddings=...)
encode(text, normalize_embeddings) ==
  [text |-> text, model |-> "general", dim |-> GeneralDim,
   norm |-> IF normalize_embeddings THEN "unit" ELSE "raw",
   normalized |-> IF normalize_embeddings THEN 1 ELSE 0]

\* np.zeros(384)
zeros(n) == [text |-> 0, model |-> "zero", dim |-> n, norm |-> "zero", normalized |-> 0]

\* faiss.normalize_L2 on one row: a zero row stays zero, any other row gets norm 1.
normalize_L2(v) ==
  [v EXCEPT !.norm = IF v.norm = "zero" THEN "zero" ELSE "unit", !.normalized = @ + 1]

\* Variant: the length test written as <=.
generate_embedding_le(legal_bert, general, text) ==
  IF legal_bert /\ text <= ShortTextThreshold
    THEN [error |-> "none", embedding |-> generate_legal_bert_embedding(text)]
    ELSE IF general
      THEN [error |-> "none", embedding |-> encode(text, TRUE)]
      ELSE [error |-> "none", embedding |-> zeros(ZeroDim)]

\* _generate_embedding: the result, and the exception it raises ("none": returns).
generate_embedding(legal_bert, general, text) ==
  IF legal_bert /\ text < ShortTextThreshold
    THEN [error |-> "none", embedding |-> generate_legal_bert_embedding(text)]
    ELSE IF general
      THEN [error |-> "none", embedding |-> encode(text, TRUE)]
      ELSE [error |-> "none", embedding |-> zeros(ZeroDim)]

\* -------------------------------------------------------------- ingestion
LegalDocument(content, embedding) == [content |-> content, embedding |-> embedding]

\* Variant: document_count incremented once per file, after the loop.
RECURSIVE load_documents_count_per_file(_, _, _, _, _, _)
load_documents_count_per_file(documents, i, docs, count, legal_bert, general) ==
  IF i > Len(documents)
    THEN [legal_documents |-> docs, document_count |-> count + (IF i > 1 THEN 1 ELSE 0),
          error |-> "none"]
    ELSE IF documents[i].kind # "dict"
      THEN [legal_documents |-> docs, document_count |-> count, error |-> "AttributeError"]
      ELSE LET e == generate_embedding(legal_bert, general, documents[i].content)
           IN IF e.error # "none"
                THEN [legal_documents |-> docs, document_count |-> count, error |-> e.error]
                ELSE load_documents_count_per_file(documents, i + 1,
                       Append(docs, LegalDocument(documents[i].content, e.embedding)),
                       count, legal_bert, general)

\* Variant: records inserted at the front of the store.
RECURSIVE load_documents_prepend(_, _, _, _, _, _)
load_documents_prepend(documents, i, docs, count, legal_bert, general) ==
  IF i > Len(documents)
    THEN [legal_documents |-> docs, document_count |-> count, error |-> "none"]
    ELSE IF documents[i].kind # "dict"
      THEN [legal_documents |-> docs, document_count |-> count, error |-> "AttributeError"]
      ELSE LET e == generate_embedding(legal_bert, general, documents[i].content)
           IN IF e.error # "none"
                THEN [legal_documents |-> docs, document_count |-> count, error |-> e.error]
                ELSE load_documents_prepend(documents, i + 1,
                       <<LegalDocument(documents[i].content, e.embedding)>> \o docs,
                       count + 1, legal_bert, general)

\* The body of "for doc_data in documents": records i.. of one file, appended
\* until one raises; the exception leaves the loop and the file.
RECURSIVE load_documents(_, _, _, _, _, _)
load_documents(documents, i, docs, count, legal_bert, general) ==
  IF i > Len(documents)
    THEN [legal_documents |-> docs, document_count |-> count, error |-> "none"]
    ELSE IF documents[i].kind # "dict"
      THEN [legal_documents |-> docs, document_count |-> count, error |-> "AttributeError"]
      ELSE LET e == generate_embedding(legal_bert, general, documents[i].content)
           IN IF e.error # "none"
                THEN [legal_documents |-> docs, document_count |-> count, error |-> e.error]
                ELSE load_documents(documents, i + 1,
                       Append(docs, LegalDocument(documents[i].content, e.embedding)),
                       count + 1, legal_bert, general)

\* ------------------------------------------------------------ index build
NoIndex == [present |-> FALSE, d |-> 0, xb |-> <<>>]

HasEmbedding(doc) == doc.embedding.model # "none"

\* Variant: records with empty content left out of the array.
valid_embeddings_nonempty_content(docs) ==
  LET kept == SelectSeq(docs, LAMBDA doc : HasEmbedding(doc) /\ doc.content > 0)
  IN [i \in 1..Len(kept) |-> kept[i].embedding]

\* [doc.embedding for doc in self.legal_documents if doc.embedding is not None]
valid_embeddings(docs) ==
  LET kept == SelectSeq(docs, HasEmbedding)
  IN [i \in 1..Len(kept) |-> kept[i].embedding]

\* faiss.normalize_L2(embeddings): every row of the array, in place.
normalize_rows(embeddings) == [i \in 1..Len(embeddings) |-> normalize_L2(embeddings[i])]

Ragged(embs) == \E i, j \in 1..Len(embs) : embs[i].dim # embs[j].dim

\* Variant: the dimension taken from the first row, rows never compared.
np_array_errors_first_row(embs) == {"none"}

\* np.array(rows) followed by embeddings.shape[1]: rows of unequal length raise
\* ValueError in np.array (NumPy >= 1.24) or give a 1-D object array whose
\* shape[1] raises IndexError (older NumPy).
np_array_errors(embs) == IF Ragged(embs) THEN {"ValueError", "IndexError"} ELSE {"none"}

\* ------------------------------------------------------------- downloader
\* LegalRAGModelDownloader (src/podgpt-integration.py). A download attempt has
\* an outcome the environment decides.
MaxCalls == 2      \* calls made on one downloader

\* self.models_config
ModelNames == {"whisper-large-v3", "nvidia-flamingo3", "legal-bert-base",
               "sentence-transformers-legal", "legal-longformer", "legal-xlm-roberta",
               "coqui-tts-multilingual", "legal-ner-multilingual"}

\* The models configured with "api_based": True
ApiBased == {"nvidia-flamingo3"}

\* self.legal_documents_config, in the order of its keys
DatasetList == <<"us_federal_law", "state_law_database", "multilingual_legal_corpus",
                 "case_law_database">>

DatasetNames == {DatasetList[i] : i \in 1..Len(DatasetList)}

essential_models == <<"whisper-large-v3", "legal-bert-base", "sentence-transformers-legal",
                      "legal-xlm-roberta", "legal-ner-multilingual">>

optional_models == <<"nvidia-flamingo3", "legal-longformer", "coqui-tts-multilingual">>

\* git clone and the integrity check of one model: cloned and verified; git
\* failed (CalledProcessError); cloned into a directory found empty; another
\* exception (git not installed).
ModelOutcomes == {"ok", "clone_failed", "unverified", "raised"}

\* git clone of one dataset: done, CalledProcessError, another exception.
DatasetOutcomes == {"ok", "clone_failed", "raised"}

\* str(Path().ctime()): pathlib.Path has no ctime; the attribute lookup raises.
path_ctime == "AttributeError"

\* _setup_api_model: the exception it raises ("none": it returns True).
setup_api_model == path_ctime

\* _download_huggingface_model under the try of download_model: the value
\* returned (FALSE also when an exception was caught).
download_huggingface_model(outcome) == outcome = "ok"

\* Variant: the existence of the directory is not looked at.
download_model_always(model_name, force_download, present, outcome) ==
  IF model_name \notin ModelNames
    THEN [result |-> FALSE, present |-> present, attempted |-> FALSE]
    ELSE IF model_name \in ApiBased
      THEN [result |-> setup_api_model = "none", present |-> present, attempted |-> TRUE]
      ELSE [result |-> download_huggingface_model(outcome),
            present |-> IF outcome \in {"ok", "unverified"}
                          THEN present \cup {model_name} ELSE present,
            attempted |-> TRUE]

\* download_model: the value returned, the model directories that exist
\* afterwards, and whether a download was attempted.
download_model(model_name, force_download, present, outcome) ==
  IF model_name \notin ModelNames
    THEN [result |-> FALSE, present |-> present, attempted |-> FALSE]
    ELSE IF model_name \in present /\ ~force_download
      THEN [result |-> TRUE, present |-> present, attempted |-> FALSE]
      ELSE IF model_name \in ApiBased
        THEN [result |-> setup_api_model = "none", present |-> present, attempted |-> TRUE]
        ELSE [result |-> download_huggingface_model(outcome),
              present |-> IF outcome \in {"ok", "unverified"}
                            THEN present \cup {model_name} ELSE present,
              attempted |-> TRUE]

\* datasets_to_download
datasets_to_download(dataset_name) ==
  IF dataset_name = "all" THEN DatasetList
  ELSE IF dataset_name \in DatasetNames THEN <<dataset_name>> ELSE <<>>

\* Variant: the loop is left at the first dataset that fails.
RECURSIVE download_datasets_stop(_, _, _, _, _)
download_datasets_stop(datasets, i, success_count, attempted, outcomes) ==
  IF i > Len(datasets)
    THEN [result |-> success_count = Len(datasets), attempted |-> attempted]
    ELSE IF outcomes[datasets[i]] = "ok"
      THEN download_datasets_stop(datasets, i + 1, success_count + 1,
                                  Append(attempted, datasets[i]), outcomes)
      ELSE [result |-> FALSE, attempted |-> Append(attempted, datasets[i])]

\* "for dataset in datasets_to_download" and the return: a dataset counts when
\* _download_huggingface_dataset returns True; a False and a caught exception
\* are logged and the loop goes on.
RECURSIVE download_datasets(_, _, _, _, _)
download_datasets(datasets, i, success_count, attempted, outcomes) ==
  IF i > Len(datasets)
    THEN [result |-> success_count = Len(datasets), attempted |-> attempted]
    ELSE download_datasets(datasets, i + 1,
           success_count + (IF outcomes[datasets[i]] = "ok" THEN 1 ELSE 0),
           Append(attempted, datasets[i]), outcomes)

\* download_legal_documents: the value returned and the datasets attempted.
download_legal_documents(dataset_name, outcomes) ==
  IF datasets_to_download(dataset_name) = <<>>
    THEN [result |-> FALSE, attempted |-> <<>>]
    ELSE download_datasets(datasets_to_download(dataset_name), 1, 0, <<>>, outcomes)

\* The outcomes the environment can give a call: one for each dataset the call
\* asks for, none for the others.
OutcomesFor(dataset_name) ==
  LET wanted == {datasets_to_download(dataset_name)[i] :
                   i \in 1..Len(datasets_to_download(dataset_name))}
  IN {o \in [DatasetNames -> DatasetOutcomes \cup {"none"}] :
        \A d \in DatasetNames : (o[d] = "none") <=> (d \notin wanted)}

NoOutcomes == [d \in DatasetNames |-> "none"]

BoolStr(b) == IF b THEN "True" ELSE "False"

\* ------------------------------------------------------------------ state
VARIABLES
  pc,                \* position in _initialize_models / the running method
  embeddings_model,  \* self.embeddings_model is loaded
  legal_bert_model,  \* self.legal_bert_model is loaded
  legal_documents,   \* self.legal_documents
  document_count,    \* document_count of _load_legal_database
  documents,         \* documents of _load_legal_database: the last file parsed
  files_read,        \* JSON files iterated so far
  vector_store,      \* self.vector_store
  error,             \* the exception raised to the caller ("none": none)
  rebuilds,          \* calls of _initialize_vector_store after construction
  call,              \* the last direct call of _generate_embedding
  batch,             \* what the corpus read so far contained
  last_built,        \* the index as the last completed build left it
  dl_pc,             \* LegalRAGModelDownloader: the running method, or "idle"
  models_present,    \* model names whose directory models_dir/<name> exists
  setup,             \* setup_legal_rag_pipeline: loop position, success_count, what returned
  calls,             \* calls made on the downloader so far
  last               \* the last call completed on the downloader and its result

pipevars == <<pc, embeddings_model, legal_bert_model, legal_documents, document_count,
              documents, files_read, vector_store, error, rebuilds, call, batch, last_built>>

dlvars == <<dl_pc, models_present, setup, calls, last>>

vars == <<pipevars, dlvars>>

NoCall == [made |-> FALSE, text |-> 0, error |-> "none", embedding |-> NoEmbedding]

EmptyBatch == [records |-> 0, ok |-> 0, empty |-> 0, malformed |-> 0, bad_files |-> 0]

NoLast == [op |-> "none", name |-> "", force |-> FALSE, result |-> "none",
           attempted |-> <<>>, downloaded |-> FALSE, outcomes |-> NoOutcomes]

NoSetup == [step |-> 0, success_count |-> 0, returned_true |-> {}, datasets |-> <<>>]

\* No downloader takes part in the construction of a pipeline.
DownloaderUnused ==
  /\ dl_pc = "unused"
  /\ models_present = {}
  /\ setup = NoSetup
  /\ calls = 0
  /\ last = NoLast

\* LegalRAGPipeline.__init__ up to the call of _initialize_models.
Init ==
  /\ pc = "load_embedding_models"
  /\ embeddings_model = FALSE
  /\ legal_bert_model = FALSE
  /\ legal_documents = <<>>
  /\ document_count = 0
  /\ documents = <<>>
  /\ files_read = 0
  /\ vector_store = NoIndex
  /\ error = "none"
  /\ rebuilds = 0
  /\ call = NoCall
  /\ batch = EmptyBatch
  /\ last_built = NoIndex
  /\ DownloaderUnused

\* A pipeline object whose model attributes hold any combination of loaded
\* models, on which _load_legal_database and _initialize_vector_store are called.
InitUnit ==
  /\ pc = "load_legal_database"
  /\ embeddings_model \in BOOLEAN
  /\ legal_bert_model \in BOOLEAN
  /\ legal_documents = <<>>
  /\ document_count = 0
  /\ documents = <<>>
  /\ files_read = 0
  /\ vector_store = NoIndex
  /\ error = "none"
  /\ rebuilds = 0
  /\ call = NoCall
  /\ batch = EmptyBatch
  /\ last_built = NoIndex
  /\ DownloaderUnused

\* A pipeline object with any combination of loaded models, on which
\* _generate_embedding is called directly.
InitEmbed ==
  /\ pc = "generate_embedding"
  /\ embeddings_model \in BOOLEAN
  /\ legal_bert_model \in BOOLEAN
  /\ legal_documents = <<>>
  /\ document_count = 0
  /\ documents = <<>>
  /\ files_read = 0
  /\ vector_store = NoIndex
  /\ error = "none"
  /\ rebuilds = 0
  /\ call = NoCall
  /\ batch = EmptyBatch
  /\ last_built = NoIndex
  /\ DownloaderUnused

\* Variant: an index that exists is kept and added to.
IndexFlatIP_reuse(dimension) ==
  IF vector_store.present THEN vector_store ELSE [present |-> TRUE, d |-> dimension, xb |-> <<>>]

\* faiss.IndexFlatIP(dimension): a new, empty index.
IndexFlatIP(dimension) == [present |-> TRUE, d |-> dimension, xb |-> <<>>]

\* Variant: the except clause logs and does not re-raise.
Raise_swallowed(e) == pc' = "ready" /\ error' = "none"

\* The except clause of _initialize_models: log and re-raise.
Raise(e) == pc' = "failed" /\ error' = e

\* ---------------------------------------------------------------- actions
\* Variant: a general model that fails to load is logged and left unset.
LoadEmbeddingModels_general_optional ==
  /\ pc = "load_embedding_models"
  /\ \E general \in {"loaded", "raises"}, legal \in {"absent", "loaded", "raises"} :
       /\ embeddings_model' = (general = "loaded")
       /\ legal_bert_model' = (legal = "loaded")
       /\ IF legal = "raises"
            THEN Raise("OSError")
            ELSE pc' = "load_speech_models" /\ UNCHANGED error
  /\ UNCHANGED <<last_built, dlvars>>
  /\ UNCHANGED <<legal_documents, document_count, documents, files_read, vector_store,
                 rebuilds, call, batch>>

\* _load_embedding_models: SentenceTransformer(...) returns or raises; the legal
\* BERT directory is absent, or AutoModel.from_pretrained returns or raises.
LoadEmbeddingModels ==
  /\ pc = "load_embedding_models"
  /\ \E general \in {"loaded", "raises"}, legal \in {"absent", "loaded", "raises"} :
       IF general = "raises"
         THEN /\ Raise("OSError")
              /\ UNCHANGED <<embeddings_model, legal_bert_model>>
         ELSE /\ embeddings_model' = TRUE
              /\ legal_bert_model' = (legal = "loaded")
              /\ IF legal = "raises"
                   THEN Raise("OSError")
                   ELSE pc' = "load_speech_models" /\ UNCHANGED error
  /\ UNCHANGED <<last_built, dlvars>>
  /\ UNCHANGED <<legal_documents, document_count, documents, files_read, vector_store,
                 rebuilds, call, batch>>

\* _load_speech_models: touches no state of the retrieval engine.
LoadSpeechModels ==
  /\ pc = "load_speech_models"
  /\ \E ok \in BOOLEAN :
       IF ok THEN pc' = "load_legal_components" /\ UNCHANGED error
             ELSE Raise("OSError")
  /\ UNCHANGED <<last_built, dlvars>>
  /\ UNCHANGED <<embeddings_model, legal_bert_model, legal_documents, document_count,
                 documents, files_read, vector_store, rebuilds, call, batch>>

\* _load_legal_components: touches no state of the retrieval engine.
LoadLegalComponents ==
  /\ pc = "load_legal_components"
  /\ \E ok \in BOOLEAN :
       IF ok THEN pc' = "load_legal_database" /\ UNCHANGED error
             ELSE Raise("OSError")
  /\ UNCHANGED <<last_built, dlvars>>
  /\ UNCHANGED <<embeddings_model, legal_bert_model, legal_documents, document_count,
                 documents, files_read, vector_store, rebuilds, call, batch>>

\* _load_legal_database, up to the loops: without the directory it returns.
LoadLegalDatabaseBegin ==
  /\ pc = "load_legal_database"
  /\ \E exists \in BOOLEAN :
       pc' = IF exists THEN "load_files" ELSE "initialize_vector_store"
  /\ document_count' = 0
  /\ UNCHANGED <<last_built, dlvars>>
  /\ UNCHANGED <<embeddings_model, legal_bert_model, legal_documents, documents,
                 files_read, vector_store, error, rebuilds, call, batch>>

CountKind(docs, k) ==
  Cardinality({i \in 1..Len(docs) :
     CASE k = "malformed" -> docs[i].kind # "dict"
       [] k = "empty" -> docs[i].kind = "dict" /\ docs[i].content = 0
       [] OTHER -> docs[i].kind = "dict" /\ docs[i].content > 0})

\* One iteration of "for json_file in doc_type_dir.glob('*.json')": json.load,
\* the loop over its records, and the except clause that logs and goes on.
LoadLegalDatabaseFile ==
  /\ pc = "load_files"
  /\ files_read < MaxFiles
  /\ \E file \in JsonFiles :
       LET r == load_documents(file.documents, 1, legal_documents, document_count,
                               legal_bert_model, embeddings_model)
       IN /\ documents' = file.documents
          /\ legal_documents' = r.legal_documents
          /\ document_count' = r.document_count
          /\ batch' = [records |-> batch.records + Len(file.documents),
                       ok |-> batch.ok + CountKind(file.documents, "ok"),
                       empty |-> batch.empty + CountKind(file.documents, "empty"),
                       malformed |-> batch.malformed + CountKind(file.documents, "malformed"),
                       bad_files |-> batch.bad_files + (IF file.parsed THEN 0 ELSE 1)]
  /\ files_read' = files_read + 1
  /\ UNCHANGED <<last_built, dlvars>>
  /\ UNCHANGED <<pc, embeddings_model, legal_bert_model, vector_store, error, rebuilds, call>>

\* The loops are exhausted: log the count and return.
LoadLegalDatabaseEnd ==
  /\ pc = "load_files"
  /\ pc' = "initialize_vector_store"
  /\ UNCHANGED <<last_built, dlvars>>
  /\ UNCHANGED <<embeddings_model, legal_bert_model, legal_documents, document_count,
                 documents, files_read, vector_store, error, rebuilds, call, batch>>

\* _initialize_vector_store up to self.vector_store = faiss.IndexFlatIP(dimension):
\* called by _initialize_models, or again on the constructed pipeline.
InitializeVectorStoreCreate ==
  /\ \/ pc = "initialize_vector_store"
     \/ pc = "ready" /\ rebuilds < MaxRebuilds
  /\ rebuilds' = IF pc = "ready" THEN rebuilds + 1 ELSE rebuilds
  /\ LET embeddings == valid_embeddings(legal_documents)
     IN IF legal_documents = <<>> \/ Len(embeddings) = 0
          THEN pc' = "ready" /\ UNCHANGED <<vector_store, error>>
          ELSE \E e \in np_array_errors(embeddings) :
                 IF e # "none"
                   THEN Raise(e) /\ UNCHANGED vector_store
                   ELSE /\ vector_store' = IndexFlatIP(embeddings[1].dim)
                        /\ pc' = "vector_store_add"
                        /\ UNCHANGED error
  /\ UNCHANGED <<last_built, dlvars>>
  /\ UNCHANGED <<embeddings_model, legal_bert_model, legal_documents, document_count,
                 documents, files_read, call, batch>>

\* faiss.normalize_L2(embeddings); self.vector_store.add(embeddings)
InitializeVectorStoreAdd ==
  /\ pc = "vector_store_add"
  /\ vector_store' = [vector_store EXCEPT
       !.xb = @ \o normalize_rows(valid_embeddings(legal_documents))]
  /\ last_built' = vector_store'
  /\ UNCHANGED dlvars
  /\ pc' = "ready"
  /\ UNCHANGED <<embeddings_model, legal_bert_model, legal_documents, document_count,
                 documents, files_read, error, rebuilds, call, batch>>

\* A direct call of _generate_embedding(text).
GenerateEmbedding ==
  /\ pc = "generate_embedding"
  /\ \E text \in CallTextLens :
       LET r == generate_embedding(legal_bert_model, embeddings_model, text)
       IN call' = [made |-> TRUE, text |-> text, error |-> r.error, embedding |-> r.embedding]
  /\ pc' = "returned"
  /\ UNCHANGED <<last_built, dlvars>>
  /\ UNCHANGED <<embeddings_model, legal_bert_model, legal_documents, document_count,
                 documents, files_read, vector_store, error, rebuilds, batch>>

\* No pipeline takes part in a run of the downloader.
PipelineUnused ==
  /\ pc = "unused"
  /\ embeddings_model = FALSE
  /\ legal_bert_model = FALSE
  /\ legal_documents = <<>>
  /\ document_count = 0
  /\ documents = <<>>
  /\ files_read = 0
  /\ vector_store = NoIndex
  /\ error = "none"
  /\ rebuilds = 0
  /\ call = NoCall
  /\ batch = EmptyBatch
  /\ last_built = NoIndex

\* LegalRAGModelDownloader.__init__: the models directory exists, with any of
\* the model directories in it.
InitDownloader ==
  /\ PipelineUnused
  /\ dl_pc = "idle"
  /\ models_present \in SUBSET ModelNames
  /\ setup = NoSetup
  /\ calls = 0
  /\ last = NoLast

\* A downloader on a models directory without model directories, for the calls
\* that do not look at them.
InitDatasets ==
  /\ PipelineUnused
  /\ dl_pc = "idle"
  /\ models_present = {}
  /\ setup = NoSetup
  /\ calls = 0
  /\ last = NoLast

\* A call of download_model(model_name, force_download).
DownloadModel ==
  /\ dl_pc = "idle"
  /\ calls < MaxCalls
  /\ \E model_name \in ModelNames \cup {"unknown-model"}, force_download \in BOOLEAN,
        outcome \in ModelOutcomes :
       LET r == download_model(model_name, force_download, models_present, outcome)
       IN /\ models_present' = r.present
          /\ last' = [op |-> "download_model", name |-> model_name, force |-> force_download,
                      result |-> BoolStr(r.result), attempted |-> <<>>,
                      downloaded |-> r.attempted, outcomes |-> NoOutcomes]
  /\ calls' = calls + 1
  /\ UNCHANGED <<pipevars, dl_pc, setup>>

\* A call of download_legal_documents(dataset_name).
DownloadLegalDocuments ==
  /\ dl_pc = "idle"
  /\ calls < MaxCalls
  /\ \E dataset_name \in DatasetNames \cup {"all", "unknown-dataset"} :
       \E outcomes \in OutcomesFor(dataset_name) :
         LET r == download_legal_documents(dataset_name, outcomes)
         IN last' = [op |-> "download_legal_documents", name |-> dataset_name,
                     force |-> FALSE, result |-> BoolStr(r.result),
                     attempted |-> r.attempted, downloaded |-> r.attempted # <<>>,
                     outcomes |-> outcomes]
  /\ calls' = calls + 1
  /\ UNCHANGED <<pipevars, dl_pc, models_present, setup>>

\* setup_legal_rag_pipeline up to the first loop.
SetupBegin ==
  /\ dl_pc = "idle"
  /\ calls < MaxCalls
  /\ dl_pc' = "setup_essential"
  /\ setup' = [step |-> 1, success_count |-> 0, returned_true |-> {}, datasets |-> <<>>]
  /\ UNCHANGED <<pipevars, models_present, calls, last>>

\* One iteration of "for model in essential_models".
SetupEssential ==
  /\ dl_pc = "setup_essential"
  /\ \E outcome \in ModelOutcomes :
       LET model == essential_models[setup.step]
           r == download_model(model, FALSE, models_present, outcome)
       IN /\ models_present' = r.present
          /\ setup' = [setup EXCEPT
               !.step = IF @ = Len(essential_models) THEN 1 ELSE @ + 1,
               !.success_count = IF r.result THEN @ + 1 ELSE @,
               !.returned_true = IF r.result THEN @ \cup {model} ELSE @]
  /\ dl_pc' = IF setup.step = Len(essential_models) THEN "setup_optional" ELSE dl_pc
  /\ UNCHANGED <<pipevars, calls, last>>

\* One iteration of "for model in optional_models": the result is dropped.
SetupOptional ==
  /\ dl_pc = "setup_optional"
  /\ \E outcome \in ModelOutcomes :
       LET model == optional_models[setup.step]
           r == download_model(model, FALSE, models_present, outcome)
       IN /\ models_present' = r.present
          /\ setup' = [setup EXCEPT
               !.step = IF @ = Len(optional_models) THEN 1 ELSE @ + 1,
               !.returned_true = IF r.result THEN @ \cup {model} ELSE @]
  /\ dl_pc' = IF setup.step = Len(optional_models) THEN "setup_datasets" ELSE dl_pc
  /\ UNCHANGED <<pipevars, calls, last>>

\* The two calls of download_legal_documents: the results are dropped.
SetupDatasets ==
  /\ dl_pc = "setup_datasets"
  /\ \E o1 \in OutcomesFor("multilingual_legal_corpus"), o2 \in OutcomesFor("us_federal_law") :
       setup' = [setup EXCEPT !.datasets =
         <<download_legal_documents("multilingual_legal_corpus", o1).result,
           download_legal_documents("us_federal_law", o2).result>>]
  /\ dl_pc' = "setup_summary"
  /\ UNCHANGED <<pipevars, models_present, calls, last>>

\* _create_setup_summary: the exception it raises ("none": it returns); the
\* dictionary literal evaluates str(Path().ctime()) first.
create_setup_summary == path_ctime

\* self._create_setup_summary() and the return of setup_legal_rag_pipeline.
SetupSummary ==
  /\ dl_pc = "setup_summary"
  /\ last' = [op |-> "setup_legal_rag_pipeline", name |-> "", force |-> FALSE,
              result |-> IF create_setup_summary # "none" THEN "raised"
                         ELSE BoolStr(setup.success_count = Len(essential_models)),
              attempted |-> <<>>, downloaded |-> FALSE, outcomes |-> NoOutcomes]
  /\ dl_pc' = "idle"
  /\ calls' = calls + 1
  /\ UNCHANGED <<pipevars, models_present, setup>>

NextSetup ==
  \/ SetupBegin
  \/ SetupEssential
  \/ SetupOptional
  \/ SetupDatasets
  \/ SetupSummary

Next ==
  \/ LoadEmbeddingModels
  \/ LoadSpeechModels
  \/ LoadLegalComponents
  \/ LoadLegalDatabaseBegin
  \/ LoadLegalDatabaseFile
  \/ LoadLegalDatabaseEnd
  \/ InitializeVectorStoreCreate
  \/ InitializeVectorStoreAdd

NextUnit ==
  \/ LoadLegalDatabaseBegin
  \/ LoadLegalDatabaseFile
  \/ LoadLegalDatabaseEnd
  \/ InitializeVectorStoreCreate
  \/ InitializeVectorStoreAdd

\* The construction of a pipeline and rebuilds of its index.
Spec == Init /\ [][Next]_vars

\* Ingestion and index build on a pipeline with any combination of loaded models.
SpecUnit == InitUnit /\ [][NextUnit]_vars

\* _generate_embedding on any text and any combination of loaded models.
SpecEmbed == InitEmbed /\ [][GenerateEmbedding]_vars

\* Runs of setup_legal_rag_pipeline on a downloader.
SpecSetup == InitDownloader /\ [][NextSetup]_vars

\* Calls of download_model on a downloader.
SpecDownloadModel == InitDownloader /\ [][DownloadModel]_vars

\* Calls of download_legal_documents on a downloader.
SpecDatasets == InitDatasets /\ [][DownloadLegalDocuments]_vars

\* ----------------------------------------------------------------- claims
\* C1: _generate_embedding uses the legal BERT model if and only if it is loaded
\* and len(text) < 512; otherwise, if the general model is loaded, it uses the
\* general model (a text of exactly 512 characters goes to the general model).
C1_SelectionPolicy ==
  call.made =>
    LET domain == legal_bert_model /\ call.text < ShortTextThreshold
    IN /\ (call.embedding.model = "legal_bert") <=> domain
       /\ (~domain /\ embeddings_model) => call.embedding.model = "general"
       /\ (domain \/ embeddings_model) =>
            call.error = "none" /\ call.embedding.text = call.text

C1_Witness ==
  /\ call.made /\ call.text = ShortTextThreshold
  /\ legal_bert_model /\ embeddings_model
  /\ call.embedding.model = "general"

\* C2: with no embedding model loaded, embedding fails with
\* NoEmbeddingModelAvailable: no all-zero vector is ever stored in a record of
\* the document store or added to the index.
C2_NoSilentZeroVector ==
  /\ \A i \in 1..Len(legal_documents) : legal_documents[i].embedding.model # "zero"
  /\ \A i \in 1..Len(vector_store.xb) : vector_store.xb[i].model # "zero"

\* C3: a record with empty or missing content is rejected: it is never appended
\* to the document store and never counted as accepted.
C3_EmptyContentRejected ==
  /\ \A i \in 1..Len(legal_documents) : legal_documents[i].content > 0
  /\ document_count <= batch.ok

NonEmptyDocs == Cardinality({i \in 1..Len(legal_documents) : legal_documents[i].content > 0})

Loaded == pc \in {"initialize_vector_store", "vector_store_add", "ready", "failed"}

\* C4: when the files read hold one malformed record, at any position, every
\* well-formed record of those files is in the document store once ingestion
\* has returned.
C4_PartialFailure ==
  (Loaded /\ batch.malformed = 1 /\ batch.bad_files = 0) => NonEmptyDocs = batch.ok

UniformIndex ==
  vector_store.present =>
    \A i \in 1..Len(vector_store.xb) : vector_store.xb[i].dim = vector_store.d

RaggedCorpus == Ragged(valid_embeddings(legal_documents))

C6_IndexSize ==
  (vector_store.present /\ pc # "vector_store_add") =>
    Len(vector_store.xb) = Len(legal_documents)

C6_Witness ==
  /\ pc = "ready" /\ vector_store.present
  /\ Len(vector_store.xb) = 3
  /\ \E i \in 1..Len(legal_documents) : legal_documents[i].content = 0

\* C7: every vector of the built index has been L2-normalised exactly once and
\* has unit norm.
C7_NormalizedOnce ==
  (vector_store.present /\ pc = "ready") =>
    \A i \in 1..Len(vector_store.xb) :
      vector_store.xb[i].normalized = 1 /\ vector_store.xb[i].norm = "unit"

\* The i-th vector of the index is the (normalised) embedding of the i-th record.
IndexAligned ==
  (vector_store.present /\ pc # "vector_store_add") =>
    /\ Len(vector_store.xb) = Len(legal_documents)
    /\ \A i \in 1..Len(legal_documents) :
         /\ vector_store.xb[i] = normalize_L2(legal_documents[i].embedding)
         /\ vector_store.xb[i].text = legal_documents[i].content

\* A step keeps every record at its position and appends the records of the
\* file just read in the order of the file.
AppendsInReadOrder ==
  LET n == Len(legal_documents)
  IN /\ Len(legal_documents') >= n
     /\ \A i \in 1..n : legal_documents'[i] = legal_documents[i]
     /\ \A k \in 1..(Len(legal_documents') - n) :
          /\ k <= Len(documents')
          /\ documents'[k].kind = "dict"
          /\ legal_documents'[n + k].content = documents'[k].content

\* C8: records are appended in the order they are read and never move, and the
\* i-th vector of the built index is the embedding of the i-th record.
C8_InsertionOrder == []IndexAligned /\ [][AppendsInReadOrder]_vars

C8_Witness ==
  /\ pc = "ready" /\ vector_store.present /\ files_read = 2
  /\ Len(legal_documents) = 4
  /\ legal_documents[1].content # legal_documents[2].content
  /\ legal_documents[2].content # legal_documents[3].content

\* The constructor has returned: other threads can hold the pipeline.
Constructed == pc = "ready" \/ rebuilds > 0

\* C9: a reader of the constructed pipeline's index sees no index or a complete
\* one, never an empty or partially populated one.
C9_CopyThenSwap ==
  (Constructed /\ vector_store.present) =>
    Len(vector_store.xb) = Len(valid_embeddings(legal_documents))

CleanBatch ==
  batch.records > 0 /\ batch.malformed = 0 /\ batch.empty = 0 /\ batch.bad_files = 0

BuildStep == pc \in {"initialize_vector_store", "vector_store_add", "ready"}

\* A build step leaves the document store as it is, and a rebuild that completes
\* leaves the index the previous build left.
RebuildSame ==
  /\ BuildStep => legal_documents' = legal_documents
  /\ (pc = "vector_store_add" /\ rebuilds > 0) => vector_store' = last_built

\* C11: rebuilding the index over the same corpus yields the same vectors in the
\* same order, and a build changes neither the document store nor the embeddings
\* stored in its records.
C11_RebuildIdempotent == [][RebuildSame]_vars

C11_Witness ==
  /\ pc = "ready" /\ rebuilds = MaxRebuilds
  /\ vector_store.present /\ Len(vector_store.xb) = 2
  /\ vector_store = last_built

Succeeded == pc = "ready"

\* C12: a pipeline whose initialization succeeded has its general embedding
\* model and, for a non-empty document store, a complete index; a missing
\* embedding model or a failed build ends initialization with the exception
\* raised to the caller.
C12_FailuresSurfaced ==
  /\ Succeeded => embeddings_model /\ error = "none"
  /\ (Succeeded /\ legal_documents # <<>>) =>
       vector_store.present /\ Len(vector_store.xb) = Len(legal_documents)
  /\ (pc # "load_embedding_models" /\ ~embeddings_model) => pc = "failed"
  /\ (Loaded /\ legal_documents # <<>> /\ ~vector_store.present) =>
       pc \in {"initialize_vector_store", "failed"}
  /\ pc = "failed" => error # "none"

C12_Witness ==
  /\ pc = "failed" /\ error = "IndexError"
  /\ Len(legal_documents) = 2 /\ ~vector_store.present /\ files_read = 1

\* C13: models are loaded before any document is embedded and the index is
\* built only after ingestion has returned; the general model is loaded
\* whenever ingestion embeds, so no all-zero embedding is stored or indexed.
C13_NoZeroVectorInConstruction ==
  /\ pc \in {"load_files", "initialize_vector_store", "vector_store_add", "ready"}
       => embeddings_model
  /\ legal_documents # <<>> => embeddings_model /\ pc \notin
       {"load_embedding_models", "load_speech_models", "load_legal_components",
        "load_legal_database"}
  /\ vector_store.present => pc \in {"vector_store_add", "ready"}
  /\ \A i \in 1..Len(legal_documents) :
       legal_documents[i].embedding.model \in {"general", "legal_bert"}
  /\ \A i \in 1..Len(vector_store.xb) : vector_store.xb[i].norm = "unit"

C13_Witness ==
  /\ pc = "ready" /\ vector_store.present /\ ~legal_bert_model /\ embeddings_model
  /\ Len(vector_store.xb) = 2
  /\ \A i \in 1..2 : legal_documents[i].embedding.model = "general"

AllEssentialReturnedTrue ==
  \A i \in 1..Len(essential_models) : essential_models[i] \in setup.returned_true

\* C14: setup_legal_rag_pipeline always returns a boolean, and returns True if
\* and only if download_model returned True for all five essential models.
C14_SetupResult ==
  last.op = "setup_legal_rag_pipeline" =>
    /\ last.result \in {"True", "False"}
    /\ (last.result = "True") <=> AllEssentialReturnedTrue

\* A call of download_model on a model whose directory exists, without force,
\* returns True, downloads nothing and leaves the directories as they are; on a
\* name that is not configured it returns False and changes nothing.
DownloadModelFrame ==
  (last'.op = "download_model" /\ calls' = calls + 1) =>
    /\ (last'.name \in models_present /\ ~last'.force) =>
         last'.result = "True" /\ ~last'.downloaded /\ models_present' = models_present
    /\ last'.name \notin ModelNames =>
         last'.result = "False" /\ ~last'.downloaded /\ models_present' = models_present

\* C15: download_model is idempotent for models that are present and changes
\* nothing for unknown names, however often it is called.
C15_DownloadModelIdempotent == [][DownloadModelFrame]_vars

C15_Witness ==
  /\ calls = MaxCalls /\ last.op = "download_model"
  /\ last.name \in models_present /\ ~last.force
  /\ last.result = "True" /\ ~last.downloaded

\* C16: download_legal_documents attempts every requested dataset, whatever
\* happened to the earlier ones, returns True if and only if every one of them
\* was downloaded, and for an unknown name returns False with no attempt.
C16_DatasetsAllAttempted ==
  last.op = "download_legal_documents" =>
    /\ last.name = "all" => last.attempted = DatasetList
    /\ last.name \in DatasetNames => last.attempted = <<last.name>>
    /\ last.name \notin DatasetNames \cup {"all"} =>
         last.attempted = <<>> /\ last.result = "False" /\ ~last.downloaded
    /\ last.name \in DatasetNames \cup {"all"} =>
         ((last.result = "True") <=>
            \A i \in 1..Len(last.attempted) : last.outcomes[last.attempted[i]] = "ok")

C16_Witness ==
  /\ last.op = "download_legal_documents" /\ last.name = "all"
  /\ last.outcomes[DatasetList[1]] = "raised"
  /\ last.outcomes[DatasetList[2]] = "clone_failed"
  /\ last.outcomes[DatasetList[4]] = "ok"
  /\ Len(last.attempted) = 4 /\ last.result = "False"

====
